---- MODULE Spec2Model ----
(***************************************************************************)
(* Model of webflow_rss_generator.js: the request handler, the collection  *)
(* fetcher, the feed renderer, the content extractor and the XML escaper.  *)
(*                                                                         *)
(* A JavaScript string is a sequence of one-character strings, so that     *)
(* escaping, substring tests and the rendered document are computed        *)
(* character by character.  A JavaScript value is a record [t, s, n]:      *)
(* t is the typeof tag, s the characters of a string, n the number.        *)
(***************************************************************************)
EXTENDS Integers, Sequences, FiniteSets, TLC

VARIABLES
  pc,          \* position of the handler / of the function under call
  config,      \* process.env read at module load (lines 4-9)
  clock,       \* what new Date() returns while the request is rendered
  upstream,    \* how the Webflow API answers this request
  resHeaders,  \* headers set on res
  responses,   \* the send/json calls made on res, in order
  errorLog,    \* console.error calls
  rssXml,      \* the document generateRSS returned to handler
  arg,         \* argument of the function under call
  ret          \* its result

vars == <<pc, config, clock, upstream, resHeaders, responses, errorLog, rssXml, arg, ret>>

-----------------------------------------------------------------------------
(* Bounds *)

\* longest string given to escapeXml
MaxLen == 3
\* most records in one upstream answer
MaxPosts == 2
\* most fields in one field mapping given to extractFullContent
MaxFields == 2

-----------------------------------------------------------------------------
(* Literals of the source *)

\* 25 characters
T_item1 == <<"\n", " ", " ", " ", " ", "<", "i", "t", "e", "m", ">", "\n", " ", " ", " ", " ", " ", " ", "<", "t", "i", "t", "l", "e", ">">>
\* 21 characters
T_item2 == <<"<", "/", "t", "i", "t", "l", "e", ">", "\n", " ", " ", " ", " ", " ", " ", "<", "l", "i", "n", "k", ">">>
\* 39 characters
T_item3 == <<"<", "/", "l", "i", "n", "k", ">", "\n", " ", " ", " ", " ", " ", " ", "<", "g", "u", "i", "d", " ", "i", "s", "P", "e", "r", "m", "a", "L", "i", "n", "k", "=", "\"", "t", "r", "u", "e", "\"", ">">>
\* 23 characters
T_item4 == <<"<", "/", "g", "u", "i", "d", ">", "\n", " ", " ", " ", " ", " ", " ", "<", "p", "u", "b", "D", "a", "t", "e", ">">>
\* 17 characters
T_item5 == <<"<", "/", "p", "u", "b", "D", "a", "t", "e", ">", "\n", " ", " ", " ", " ", " ", " ">>
\* 8 characters
T_authorOpen == <<"<", "a", "u", "t", "h", "o", "r", ">">>
\* 9 characters
T_authorClose == <<"<", "/", "a", "u", "t", "h", "o", "r", ">">>
\* 29 characters
T_item6 == <<"\n", " ", " ", " ", " ", " ", " ", "<", "d", "e", "s", "c", "r", "i", "p", "t", "i", "o", "n", ">", "<", "!", "[", "C", "D", "A", "T", "A", "[">>
\* 50 characters
T_item7 == <<"]", "]", ">", "<", "/", "d", "e", "s", "c", "r", "i", "p", "t", "i", "o", "n", ">", "\n", " ", " ", " ", " ", " ", " ", "<", "c", "o", "n", "t", "e", "n", "t", ":", "e", "n", "c", "o", "d", "e", "d", ">", "<", "!", "[", "C", "D", "A", "T", "A", "[">>
\* 33 characters
T_item8 == <<"]", "]", ">", "<", "/", "c", "o", "n", "t", "e", "n", "t", ":", "e", "n", "c", "o", "d", "e", "d", ">", "\n", " ", " ", " ", " ", "<", "/", "i", "t", "e", "m", ">">>
\* 191 characters
T_doc1 == <<"<", "?", "x", "m", "l", " ", "v", "e", "r", "s", "i", "o", "n", "=", "\"", "1", ".", "0", "\"", " ", "e", "n", "c", "o", "d", "i", "n", "g", "=", "\"", "U", "T", "F", "-", "8", "\"", "?", ">", "\n", "<", "r", "s", "s", " ", "v", "e", "r", "s", "i", "o", "n", "=", "\"", "2", ".", "0", "\"", " ", "\n", " ", " ", " ", " ", " ", "x", "m", "l", "n", "s", ":", "c", "o", "n", "t", "e", "n", "t", "=", "\"", "h", "t", "t", "p", ":", "/", "/", "p", "u", "r", "l", ".", "o", "r", "g", "/", "r", "s", "s", "/", "1", ".", "0", "/", "m", "o", "d", "u", "l", "e", "s", "/", "c", "o", "n", "t", "e", "n", "t", "/", "\"", "\n", " ", " ", " ", " ", " ", "x", "m", "l", "n", "s", ":", "a", "t", "o", "m", "=", "\"", "h", "t", "t", "p", ":", "/", "/", "w", "w", "w", ".", "w", "3", ".", "o", "r", "g", "/", "2", "0", "0", "5", "/", "A", "t", "o", "m", "\"", ">", "\n", " ", " ", "<", "c", "h", "a", "n", "n", "e", "l", ">", "\n", " ", " ", " ", " ", "<", "t", "i", "t", "l", "e", ">">>
\* 19 characters
T_doc2 == <<"<", "/", "t", "i", "t", "l", "e", ">", "\n", " ", " ", " ", " ", "<", "l", "i", "n", "k", ">">>
\* 25 characters
T_doc3 == <<"<", "/", "l", "i", "n", "k", ">", "\n", " ", " ", " ", " ", "<", "d", "e", "s", "c", "r", "i", "p", "t", "i", "o", "n", ">">>
\* 65 characters
T_doc4 == <<"<", "/", "d", "e", "s", "c", "r", "i", "p", "t", "i", "o", "n", ">", "\n", " ", " ", " ", " ", "<", "l", "a", "n", "g", "u", "a", "g", "e", ">", "e", "n", "-", "u", "s", "<", "/", "l", "a", "n", "g", "u", "a", "g", "e", ">", "\n", " ", " ", " ", " ", "<", "l", "a", "s", "t", "B", "u", "i", "l", "d", "D", "a", "t", "e", ">">>
\* 38 characters
T_doc5 == <<"<", "/", "l", "a", "s", "t", "B", "u", "i", "l", "d", "D", "a", "t", "e", ">", "\n", " ", " ", " ", " ", "<", "a", "t", "o", "m", ":", "l", "i", "n", "k", " ", "h", "r", "e", "f", "=", "\"">>
\* 55 characters
T_doc6 == <<"/", "a", "p", "i", "/", "r", "s", "s", "\"", " ", "r", "e", "l", "=", "\"", "s", "e", "l", "f", "\"", " ", "t", "y", "p", "e", "=", "\"", "a", "p", "p", "l", "i", "c", "a", "t", "i", "o", "n", "/", "r", "s", "s", "+", "x", "m", "l", "\"", " ", "/", ">", "\n", " ", " ", " ", " ">>
\* 20 characters
T_doc7 == <<"\n", " ", " ", "<", "/", "c", "h", "a", "n", "n", "e", "l", ">", "\n", "<", "/", "r", "s", "s", ">">>
\* 6 characters
T_blog == <<"/", "b", "l", "o", "g", "/">>
\* 13 characters
T_untitled == <<"U", "n", "t", "i", "t", "l", "e", "d", " ", "P", "o", "s", "t">>
\* 20 characters
DEFAULT_SITE_URL == <<"h", "t", "t", "p", "s", ":", "/", "/", "y", "o", "u", "r", "s", "i", "t", "e", ".", "c", "o", "m">>
\* 9 characters
DEFAULT_SITE_NAME == <<"Y", "o", "u", "r", " ", "B", "l", "o", "g">>
\* 17 characters
DEFAULT_SITE_DESCRIPTION == <<"L", "a", "t", "e", "s", "t", " ", "b", "l", "o", "g", " ", "p", "o", "s", "t", "s">>
\* 5 characters
E_amp == <<"&", "a", "m", "p", ";">>
\* 4 characters
E_lt == <<"&", "l", "t", ";">>
\* 4 characters
E_gt == <<"&", "g", "t", ";">>
\* 6 characters
E_quot == <<"&", "q", "u", "o", "t", ";">>
\* 5 characters
E_apos == <<"&", "#", "3", "9", ";">>
\* 3 characters
M_p == <<"<", "p", ">">>
\* 2 characters
M_h == <<"<", "h">>
\* 4 characters
M_div == <<"<", "d", "i", "v">>
\* 4 characters
M_http == <<"h", "t", "t", "p">>
\* 1 characters
M_at == <<"@">>
\* 7 characters
R_para == <<"<", "/", "p", ">", "<", "p", ">">>
\* 4 characters
R_br == <<"<", "b", "r", ">">>
\* 2 characters
R_nlnl == <<"\n", "\n">>
\* 39 characters
J_error == <<"{", "\"", "e", "r", "r", "o", "r", "\"", ":", "\"", "F", "a", "i", "l", "e", "d", " ", "t", "o", " ", "g", "e", "n", "e", "r", "a", "t", "e", " ", "R", "S", "S", " ", "f", "e", "e", "d", "\"", "}">>
\* 15 characters
S_objectObject == <<"[", "o", "b", "j", "e", "c", "t", " ", "O", "b", "j", "e", "c", "t", "]">>
\* 9 characters
S_undefined == <<"u", "n", "d", "e", "f", "i", "n", "e", "d">>
\* 12 characters
S_invalidDate == <<"I", "n", "v", "a", "l", "i", "d", " ", "D", "a", "t", "e">>
\* 4 characters
S_gmt == <<" ", "G", "M", "T">>

\* the contentFields array, in its order
contentFields == <<"content", "body", "post-body", "main-content", "rich-text", "blog-content">>

\* value.length > 100
MinContentLength == 100
\* str.split(' ').length > 20
MinWordCount == 20
\* res.status(200)
StatusOk == 200
\* res.status(500)
StatusError == 500

-----------------------------------------------------------------------------
(* JavaScript values *)

Undefined == [t |-> "undefined", s |-> <<>>, n |-> 0]
Str(s) == [t |-> "string", s |-> s, n |-> 0]
Num(n) == [t |-> "number", s |-> <<>>, n |-> n]
\* a nested mapping (a plain object parsed from JSON)
Obj == [t |-> "object", s |-> <<>>, n |-> 0]

\* ToBoolean: '', 0 and undefined are falsy, every object is truthy
Truthy(v) ==
  \/ v.t = "string" /\ v.s # <<>>
  \/ v.t = "number" /\ v.n # 0
  \/ v.t = "object"

\* a || b
Or(a, b) == IF Truthy(a) THEN a ELSE b

Digits == <<"0", "1", "2", "3", "4", "5", "6", "7", "8", "9">>

RECURSIVE NatToStr(_)
NatToStr(n) ==
  IF n < 10 THEN <<Digits[n + 1]>>
  ELSE NatToStr(n \div 10) \o <<Digits[(n % 10) + 1]>>

\* String(v), as toString() and template interpolation compute it
ToStr(v) ==
  CASE v.t = "string" -> v.s
    [] v.t = "number" -> IF v.n < 0 THEN <<"-">> \o NatToStr(-v.n) ELSE NatToStr(v.n)
    [] v.t = "object" -> S_objectObject
    [] OTHER -> S_undefined

\* String.prototype.includes
Includes(s, sub) ==
  \E i \in 1..(Len(s) - Len(sub) + 1) : \A k \in 1..Len(sub) : s[i + k - 1] = sub[k]

\* the index of the leftmost occurrence of pat in s, 0 when there is none
IndexOf(s, pat) ==
  LET found == {i \in 1..(Len(s) - Len(pat) + 1) : \A k \in 1..Len(pat) : s[i + k - 1] = pat[k]}
  IN IF found = {} THEN 0 ELSE CHOOSE i \in found : \A j \in found : i <= j

\* String.prototype.replace with a global regex of one literal: the leftmost
\* occurrence of pat becomes rep and the search goes on after it, so the
\* occurrences replaced do not overlap and rep is never searched again
RECURSIVE ReplaceAll(_, _, _)
ReplaceAll(s, pat, rep) ==
  LET i == IndexOf(s, pat)
  IN IF i = 0 THEN s
     ELSE SubSeq(s, 1, i - 1) \o rep \o ReplaceAll(SubSeq(s, i + Len(pat), Len(s)), pat, rep)

\* str.split(' ').length: one piece more than there are spaces
SplitLength(s) == Cardinality({i \in 1..Len(s) : s[i] = " "}) + 1

\* concatenation of a sequence of strings: Array.join('') and template literals
RECURSIVE Concat(_)
Concat(ss) == IF ss = <<>> THEN <<>> ELSE Head(ss) \o Concat(Tail(ss))

-----------------------------------------------------------------------------
(* escapeXml, lines 158-166 *)

\* the same replacements with the ampersand replaced last
escapeXml_AmpLast(str) ==
  IF ~Truthy(str) THEN <<>>
  ELSE ReplaceAll(ReplaceAll(ReplaceAll(ReplaceAll(ReplaceAll(ToStr(str),
         <<"<">>, E_lt), <<">">>, E_gt), <<"\"">>, E_quot), <<"'">>, E_apos), <<"&">>, E_amp)

escapeXml(str) ==
  IF ~Truthy(str) THEN <<>>
  ELSE ReplaceAll(ReplaceAll(ReplaceAll(ReplaceAll(ReplaceAll(ToStr(str),
         <<"&">>, E_amp), <<"<">>, E_lt), <<">">>, E_gt), <<"\"">>, E_quot), <<"'">>, E_apos)

-----------------------------------------------------------------------------
(* Results of functions that may throw *)

Return(v) == [threw |-> FALSE, v |-> v]
\* a TypeError escapes the function
Throw == [threw |-> TRUE, v |-> <<>>]

-----------------------------------------------------------------------------
(* Field mappings: a sequence of [k, v] in insertion order, the order of *)
(* Object.values for the non-numeric keys Webflow uses                   *)

\* fieldData[name]
Get(fields, name) ==
  IF \E i \in 1..Len(fields) : fields[i].k = name
  THEN fields[CHOOSE i \in 1..Len(fields) : fields[i].k = name].v
  ELSE Undefined

NoFieldData == [present |-> FALSE, fields |-> <<>>]
FieldData(fields) == [present |-> TRUE, fields |-> fields]

\* post.fieldData?.name
Field(fieldData, name) ==
  IF fieldData.present THEN Get(fieldData.fields, name) ELSE Undefined

-----------------------------------------------------------------------------
(* isLikelyContent, lines 138-142 *)

\* the heuristic without the '@' exclusion
isLikelyContent_NoAtCheck(str) ==
  \/ Includes(str, M_p)
  \/ Includes(str, M_h)
  \/ Includes(str, M_div)
  \/ SplitLength(str) > MinWordCount /\ ~Includes(str, M_http)

isLikelyContent(str) ==
  \/ Includes(str, M_p)
  \/ Includes(str, M_h)
  \/ Includes(str, M_div)
  \/ SplitLength(str) > MinWordCount /\ ~Includes(str, M_at) /\ ~Includes(str, M_http)

-----------------------------------------------------------------------------
(* processRichTextContent, lines 145-155 *)

processRichTextContent(content) ==
  IF ~Truthy(content) THEN Return(<<>>)
  ELSE IF content.t # "string" THEN Throw   \* content.includes is not a function
  ELSE IF Includes(content.s, <<"<">>) /\ Includes(content.s, <<">">>) THEN Return(content.s)
  ELSE Return(ReplaceAll(ReplaceAll(content.s, R_nlnl, R_para), <<"\n">>, R_br))

-----------------------------------------------------------------------------
(* extractFullContent, lines 97-135 *)

\* lines 113-118: the first truthy candidate field, '' when there is none
RECURSIVE FindContentField(_, _)
FindContentField(fields, i) ==
  IF i > Len(contentFields) THEN Str(<<>>)
  ELSE IF Truthy(Get(fields, contentFields[i])) THEN Get(fields, contentFields[i])
  ELSE FindContentField(fields, i + 1)

\* lines 122-126: the forEach over Object.values(fieldData)
RECURSIVE ScanValues(_)
ScanValues(fields) ==
  IF fields = <<>> THEN <<>>
  ELSE LET value == Head(fields).v
       IN (IF value.t = "string" /\ Len(value.s) > MinContentLength /\ isLikelyContent(value.s)
           THEN value.s \o R_nlnl
           ELSE <<>>) \o ScanValues(Tail(fields))

extractFullContent(fieldData) ==
  IF ~fieldData.present THEN Return(<<>>)
  ELSE LET found == FindContentField(fieldData.fields, 1)
           fullContent == IF ~Truthy(found) THEN Str(ScanValues(fieldData.fields)) ELSE found
       IN IF Truthy(fullContent) THEN processRichTextContent(fullContent) ELSE Return(<<>>)

-----------------------------------------------------------------------------
(* new Date(x).toUTCString(), lines 56 and 59.  A date is given as an ISO  *)
(* 8601 UTC string YYYY-MM-DDTHH:MM:SS.mmmZ, the form Webflow sends; any   *)
(* other string is an invalid date.                                        *)

IsDigit(c) == \E d \in 1..10 : Digits[d] = c
DigitVal(c) == (CHOOSE d \in 1..10 : Digits[d] = c) - 1
Num2(s, i) == DigitVal(s[i]) * 10 + DigitVal(s[i + 1])
Num4(s, i) == Num2(s, i) * 100 + Num2(s, i + 2)

IsIsoDate(s) ==
  /\ Len(s) = 24
  /\ s[5] = "-" /\ s[8] = "-" /\ s[11] = "T" /\ s[14] = ":" /\ s[17] = ":"
  /\ s[20] = "." /\ s[24] = "Z"
  /\ \A i \in {1, 2, 3, 4, 6, 7, 9, 10, 12, 13, 15, 16, 18, 19, 21, 22, 23} : IsDigit(s[i])
  /\ Num2(s, 6) \in 1..12 /\ Num2(s, 9) \in 1..31
  /\ Num2(s, 12) \in 0..23 /\ Num2(s, 15) \in 0..59 /\ Num2(s, 18) \in 0..59

DayNames == << <<"S", "u", "n">>, <<"M", "o", "n">>, <<"T", "u", "e">>, <<"W", "e", "d">>,
               <<"T", "h", "u">>, <<"F", "r", "i">>, <<"S", "a", "t">> >>

MonthNames == << <<"J", "a", "n">>, <<"F", "e", "b">>, <<"M", "a", "r">>, <<"A", "p", "r">>,
                 <<"M", "a", "y">>, <<"J", "u", "n">>, <<"J", "u", "l">>, <<"A", "u", "g">>,
                 <<"S", "e", "p">>, <<"O", "c", "t">>, <<"N", "o", "v">>, <<"D", "e", "c">> >>

MonthOffsets == <<0, 3, 2, 5, 0, 3, 5, 1, 4, 6, 2, 4>>

\* day of the week of a Gregorian date, 0 for Sunday
DayOfWeek(year, month, day) ==
  LET y == IF month < 3 THEN year - 1 ELSE year
  IN (y + (y \div 4) - (y \div 100) + (y \div 400) + MonthOffsets[month] + day) % 7

\* "Mon, 15 Jan 2024 10:30:00 GMT"
toUTCString(s) ==
  IF ~IsIsoDate(s) THEN S_invalidDate
  ELSE Concat(<< DayNames[DayOfWeek(Num4(s, 1), Num2(s, 6), Num2(s, 9)) + 1], <<",", " ">>,
                 SubSeq(s, 9, 10), <<" ">>, MonthNames[Num2(s, 6)], <<" ">>,
                 SubSeq(s, 1, 4), <<" ">>, SubSeq(s, 12, 19), S_gmt >>)

-----------------------------------------------------------------------------
(* Configuration, lines 7-9: process.env.X || default *)

SITE_URL(env) == ToStr(Or(env.SITE_URL, Str(DEFAULT_SITE_URL)))
SITE_NAME(env) == ToStr(Or(env.SITE_NAME, Str(DEFAULT_SITE_NAME)))
SITE_DESCRIPTION(env) == ToStr(Or(env.SITE_DESCRIPTION, Str(DEFAULT_SITE_DESCRIPTION)))

-----------------------------------------------------------------------------
(* generateRSS, lines 55-94 *)

\* line 59
PostDate(post, now) ==
  IF Truthy(post.createdOn) THEN toUTCString(ToStr(post.createdOn)) ELSE now

\* line 60
PostUrl(post, env) ==
  Concat(<<SITE_URL(env), T_blog, ToStr(Or(Field(post.fieldData, "slug"), post.id))>>)

\* line 63
PostTitle(post) ==
  escapeXml(Or(Or(Field(post.fieldData, "name"), Field(post.fieldData, "title")), Str(T_untitled)))

\* line 64
PostDescription(post) ==
  escapeXml(Or(Or(Field(post.fieldData, "summary"), Field(post.fieldData, "excerpt")), Str(<<>>)))

\* line 66
PostAuthor(post) == escapeXml(Or(Field(post.fieldData, "author"), Str(<<>>)))

\* lines 58-77: the callback of posts.map
RenderItem(post, env, now) ==
  LET content == extractFullContent(post.fieldData)
      author == PostAuthor(post)
  IN IF content.threw THEN Throw
     ELSE Return(Concat(<<
            T_item1, PostTitle(post),
            T_item2, PostUrl(post, env),
            T_item3, PostUrl(post, env),
            T_item4, PostDate(post, now),
            T_item5, IF author # <<>> THEN Concat(<<T_authorOpen, author, T_authorClose>>) ELSE <<>>,
            T_item6, PostDescription(post),
            T_item7, content.v,
            T_item8 >>))

\* the items joined last record first
RssItems_Reversed(posts, env, now) ==
  LET n == Len(posts)
      items == [i \in 1..n |-> RenderItem(posts[n + 1 - i], env, now)]
  IN IF \E i \in 1..n : items[i].threw THEN Throw
     ELSE Return(Concat([i \in 1..n |-> items[i].v]))

\* lines 58-78: posts.map(...).join('')
RssItems(posts, env, now) ==
  LET items == [i \in 1..Len(posts) |-> RenderItem(posts[i], env, now)]
  IN IF \E i \in 1..Len(posts) : items[i].threw THEN Throw
     ELSE Return(Concat([i \in 1..Len(posts) |-> items[i].v]))

generateRSS(posts, env, date) ==
  LET now == toUTCString(date)
      rssItems == RssItems(posts, env, now)
  IN IF rssItems.threw THEN Throw
     ELSE Return(Concat(<<
            T_doc1, escapeXml(Str(SITE_NAME(env))),
            T_doc2, SITE_URL(env),
            T_doc3, escapeXml(Str(SITE_DESCRIPTION(env))),
            T_doc4, now,
            T_doc5, SITE_URL(env),
            T_doc6, rssItems.v,
            T_doc7 >>))

-----------------------------------------------------------------------------
(* Inputs *)

\* 12 characters
V_hello == <<"<", "p", ">", "H", "e", "l", "l", "o", "<", "/", "p", ">">>
\* 29 characters
V_lines == <<"L", "i", "n", "e", " ", "o", "n", "e", "\n", "\n", "L", "i", "n", "e", " ", "t", "w", "o", "\n", "L", "i", "n", "e", " ", "t", "h", "r", "e", "e">>
\* 8 characters
V_cdataBreak == <<"x", "]", "]", ">", "<", "b", ">", "y">>
\* 5 characters
V_slugPlain == <<"h", "e", "l", "l", "o">>
\* 5 characters
V_slugRaw == <<"a", "&", "b", "<", "c">>
\* 7 characters
V_titleAmp == <<"A", "&", "B", " ", "\"", "x", "\"">>
\* 5 characters
V_nameHello == <<"H", "e", "l", "l", "o">>
\* 3 characters
V_ann == <<"A", "n", "n">>
\* 5 characters
V_summary == <<"1", " ", "<", " ", "2">>
\* 2 characters
V_p1 == <<"p", "1">>
\* 2 characters
V_p2 == <<"p", "2">>
\* 2 characters
V_p3 == <<"p", "3">>
\* 2 characters
V_p4 == <<"p", "4">>
\* 2 characters
V_p5 == <<"p", "5">>
\* 2 characters
V_p6 == <<"p", "6">>
\* 2 characters
V_p7 == <<"p", "7">>
\* 2 characters
V_p8 == <<"p", "8">>
\* 10 characters
V_siteAmp == <<"R", "&", "D", " ", "<", "N", "e", "w", "s", ">">>
\* 24 characters
V_date1 == <<"2", "0", "2", "4", "-", "0", "1", "-", "1", "5", "T", "1", "0", ":", "3", "0", ":", "0", "0", ".", "0", "0", "0", "Z">>
\* 24 characters
V_date2 == <<"2", "0", "2", "3", "-", "1", "2", "-", "3", "1", "T", "2", "3", ":", "5", "9", ":", "5", "9", ".", "0", "0", "0", "Z">>
\* 9 characters
V_dateBad == <<"y", "e", "s", "t", "e", "r", "d", "a", "y">>
\* 24 characters
V_now == <<"2", "0", "2", "6", "-", "0", "2", "-", "2", "8", "T", "0", "8", ":", "0", "5", ":", "0", "9", ".", "0", "0", "0", "Z">>
\* 150 characters
V_long150 == <<"l", "o", "r", "e", "m", " ", "l", "o", "r", "e", "m", " ", "l", "o", "r", "e", "m", " ", "l", "o", "r", "e", "m", " ", "l", "o", "r", "e", "m", " ", "l", "o", "r", "e", "m", " ", "l", "o", "r", "e", "m", " ", "l", "o", "r", "e", "m", " ", "l", "o", "r", "e", "m", " ", "l", "o", "r", "e", "m", " ", "l", "o", "r", "e", "m", " ", "l", "o", "r", "e", "m", " ", "l", "o", "r", "e", "m", " ", "l", "o", "r", "e", "m", " ", "l", "o", "r", "e", "m", " ", "l", "o", "r", "e", "m", " ", "l", "o", "r", "e", "m", " ", "l", "o", "r", "e", "m", " ", "l", "o", "r", "e", "m", " ", "l", "o", "r", "e", "m", " ", "l", "o", "r", "e", "m", " ", "l", "o", "r", "e", "m", " ", "l", "o", "r", "e", "m", " ", "l", "o", "r", "e", "m", " ", "l", "o", "r", "e", "m", "m">>
\* 110 characters
V_longDiv == <<"<", "d", "i", "v", " ", "c", "l", "a", "s", "s", "=", "a", ">", "d", "d", "d", "d", "d", "d", "d", "d", "d", "d", "d", "d", "d", "d", "d", "d", "d", "d", "d", "d", "d", "d", "d", "d", "d", "d", "d", "d", "d", "d", "d", "d", "d", "d", "d", "d", "d", "d", "d", "d", "d", "d", "d", "d", "d", "d", "d", "d", "d", "d", "d", "d", "d", "d", "d", "d", "d", "d", "d", "d", "d", "d", "d", "d", "d", "d", "d", "d", "d", "d", "d", "d", "d", "d", "d", "d", "d", "d", "d", "d", "d", "d", "d", "d", "d", "d", "d", "d", "d", "d", "d", "<", "/", "d", "i", "v", ">">>
\* 140 characters
V_longAt == <<"m", "a", "i", "l", " ", "m", "a", "i", "l", " ", "m", "a", "i", "l", " ", "m", "a", "i", "l", " ", "m", "a", "i", "l", " ", "m", "a", "i", "l", " ", "m", "a", "i", "l", " ", "m", "a", "i", "l", " ", "m", "a", "i", "l", " ", "m", "a", "i", "l", " ", "m", "a", "i", "l", " ", "m", "a", "i", "l", " ", "m", "a", "i", "l", " ", "m", "a", "i", "l", " ", "m", "a", "i", "l", " ", "m", "a", "i", "l", " ", "m", "a", "i", "l", " ", "m", "a", "i", "l", " ", "m", "a", "i", "l", " ", "m", "a", "i", "l", " ", "m", "a", "i", "l", " ", "m", "a", "i", "l", " ", "m", "a", "i", "l", " ", "m", "a", "i", "l", " ", "m", "a", "i", "l", " ", "a", "@", "b", ".", "c", "z", "z", "z", "z", "z", "z", "z", "z", "z", "z">>
\* 100 characters
V_len100 == <<"a", "b", "c", " ", "a", "b", "c", " ", "a", "b", "c", " ", "a", "b", "c", " ", "a", "b", "c", " ", "a", "b", "c", " ", "a", "b", "c", " ", "a", "b", "c", " ", "a", "b", "c", " ", "a", "b", "c", " ", "a", "b", "c", " ", "a", "b", "c", " ", "a", "b", "c", " ", "a", "b", "c", " ", "a", "b", "c", " ", "a", "b", "c", " ", "a", "b", "c", " ", "a", "b", "c", " ", "a", "b", "c", " ", "a", "b", "c", " ", "a", "b", "c", " ", "a", "b", "c", " ", "a", "b", "c", " ", "a", "b", "c", " ", "a", "b", "c", "c">>
\* 120 characters
V_fewWords == <<"o", "n", "l", "y", " ", "f", "o", "u", "r", " ", "w", "o", "r", "d", "s", " ", "h", "e", "r", "e", "e", "e", "e", "e", "e", "e", "e", "e", "e", "e", "e", "e", "e", "e", "e", "e", "e", "e", "e", "e", "e", "e", "e", "e", "e", "e", "e", "e", "e", "e", "e", "e", "e", "e", "e", "e", "e", "e", "e", "e", "e", "e", "e", "e", "e", "e", "e", "e", "e", "e", "e", "e", "e", "e", "e", "e", "e", "e", "e", "e", "e", "e", "e", "e", "e", "e", "e", "e", "e", "e", "e", "e", "e", "e", "e", "e", "e", "e", "e", "e", "e", "e", "e", "e", "e", "e", "e", "e", "e", "e", "e", "e", "e", "e", "e", "e", "e", "e", "e", "e">>
\* 130 characters
V_dblSpace == <<"a", "l", "p", "h", "a", " ", "a", "l", "p", "h", "a", " ", "a", "l", "p", "h", "a", " ", "a", "l", "p", "h", "a", " ", "a", "l", "p", "h", "a", ".", " ", " ", "b", "e", "t", "a", " ", "b", "e", "t", "a", " ", "b", "e", "t", "a", " ", "b", "e", "t", "a", " ", "b", "e", "t", "a", ".", " ", " ", "g", "a", "m", "m", "a", " ", "g", "a", "m", "m", "a", " ", "g", "a", "m", "m", "a", " ", "g", "a", "m", "m", "a", " ", "g", "a", "m", "m", "a", ".", " ", " ", "d", "e", "l", "t", "a", " ", "d", "e", "l", "t", "a", " ", "d", "e", "l", "t", "a", " ", "d", "e", "l", "t", "a", "a", "a", "a", "a", "a", "a", "a", "a", "a", "a", "a", "a", "a", "a", "a", "a">>

KV(k, v) == [k |-> k, v |-> v]
Post(id, createdOn, fieldData) == [id |-> Str(id), createdOn |-> createdOn, fieldData |-> fieldData]

\* an HTML post with every field
PostFull ==
  Post(V_p1, Str(V_date1), FieldData(<<KV("name", Str(V_nameHello)), KV("slug", Str(V_slugPlain)),
       KV("summary", Str(V_summary)), KV("content", Str(V_hello)), KV("author", Str(V_ann))>>))
\* an older plain-text post without a slug, its title holding reserved characters
PostPlain ==
  Post(V_p2, Str(V_date2), FieldData(<<KV("title", Str(V_titleAmp)), KV("body", Str(V_lines))>>))
\* a record with no field mapping and no creation timestamp
PostBare == Post(V_p3, Undefined, NoFieldData)
\* a slug holding reserved characters, an unparsable timestamp
PostRawSlug ==
  Post(V_p4, Str(V_dateBad), FieldData(<<KV("name", Str(V_nameHello)), KV("slug", Str(V_slugRaw))>>))
\* content holding the CDATA terminator
PostCdata == Post(V_p5, Str(V_date1), FieldData(<<KV("content", Str(V_cdataBreak))>>))
\* a number in a content field
PostNumberContent == Post(V_p6, Str(V_date1), FieldData(<<KV("content", Num(42))>>))
\* a nested mapping in a content field
PostObjectContent ==
  Post(V_p7, Str(V_date2), FieldData(<<KV("name", Str(V_nameHello)), KV("post-body", Obj)>>))
\* numbers and a nested mapping in the escaped fields, content found by the scan
PostOddFields ==
  Post(V_p8, Undefined, FieldData(<<KV("name", Num(7)), KV("author", Obj), KV("summary", Num(0)),
       KV("slug", Num(5)), KV("intro", Str(V_long150))>>))

PostPool == {PostFull, PostPlain, PostBare, PostRawSlug, PostCdata, PostNumberContent,
             PostObjectContent, PostOddFields}

SeqsUpTo(S, n) == UNION {[1..k -> S] : k \in 0..n}

\* the answers of the Webflow API: the fetch rejects, answers with a
\* non-success status, answers with a body that is not JSON, or with a JSON
\* object with or without an items array
Response(ok, status, body, hasItems, items) ==
  [kind |-> "response", ok |-> ok, status |-> status, body |-> body,
   hasItems |-> hasItems, items |-> items]
Rejected == [kind |-> "rejected", ok |-> FALSE, status |-> 0, body |-> "none",
             hasItems |-> FALSE, items |-> <<>>]

Upstreams ==
  {Rejected}
  \cup {Response(FALSE, st, "none", FALSE, <<>>) : st \in {401, 403, 404, 429, 500}}
  \cup {Response(TRUE, StatusOk, "unparsable", FALSE, <<>>)}
  \cup {Response(TRUE, StatusOk, "object", FALSE, <<>>)}
  \cup {Response(TRUE, StatusOk, "object", TRUE, items) : items \in SeqsUpTo(PostPool, MaxPosts)}

Envs ==
  {[SITE_URL |-> Undefined, SITE_NAME |-> Undefined, SITE_DESCRIPTION |-> Undefined],
   [SITE_URL |-> Undefined, SITE_NAME |-> Str(V_siteAmp), SITE_DESCRIPTION |-> Str(V_titleAmp)]}

Clocks == {V_now}

EscapeAlphabet == {"&", "<", ">", "\"", "'", "a", ";"}
EscapeInputs ==
  {Str(s) : s \in SeqsUpTo(EscapeAlphabet, MaxLen)} \cup {Undefined, Num(0), Num(42), Num(-7), Obj}

ExtractNames == {"content", "blog-content", "intro", "notes"}
ExtractValues ==
  {Str(<<>>), Str(V_hello), Str(V_lines), Num(42), Str(V_long150), Str(V_longDiv),
   Str(V_longAt), Str(V_len100), Str(V_fewWords), Str(V_dblSpace)}
ExtractInputs ==
  {NoFieldData}
  \cup {FieldData(f) : f \in {g \in SeqsUpTo({KV(k, v) : k \in ExtractNames, v \in ExtractValues}, MaxFields) :
                                \A i, j \in 1..Len(g) : i # j => g[i].k # g[j].k}}

-----------------------------------------------------------------------------
(* handler, lines 12-31, and fetchWebflowPosts, lines 34-52 *)

Idle == <<>>

Init ==
  /\ pc = "ReceivedRequest"
  /\ config \in Envs
  /\ clock \in Clocks
  /\ upstream \in Upstreams
  /\ resHeaders = <<>>
  /\ responses = <<>>
  /\ errorLog = <<>>
  /\ rssXml = <<>>
  /\ arg = Idle
  /\ ret = Idle

\* res.setHeader replaces the header of that name
SetHeader(headers, name, value) ==
  SelectSeq(headers, LAMBDA h : h.name # name) \o <<[name |-> name, value |-> value]>>

\* the catch block passing a failed upstream status on to the caller
Catch_UpstreamStatus(sofar, error) ==
  /\ errorLog' = Append(errorLog, error)
  /\ responses' = Append(sofar, [status |-> IF upstream.kind = "response" /\ ~upstream.ok
                                             THEN upstream.status ELSE StatusError,
                                 type |-> "json", body |-> J_error])
  /\ resHeaders' = SetHeader(resHeaders, "Content-Type", "application/json; charset=utf-8")
  /\ pc' = "Failed"

\* lines 27-30: the catch block logs and answers 500 with the fixed JSON body
Catch(sofar, error) ==
  /\ errorLog' = Append(errorLog, error)
  /\ responses' = Append(sofar, [status |-> StatusError, type |-> "json", body |-> J_error])
  /\ resHeaders' = SetHeader(resHeaders, "Content-Type", "application/json; charset=utf-8")
  /\ pc' = "Failed"

\* lines 15-16 and 35-44: the headers are set and the fetch is issued
Start ==
  /\ pc = "ReceivedRequest"
  /\ resHeaders' = SetHeader(SetHeader(resHeaders, "Access-Control-Allow-Origin", "*"),
                             "Content-Type", "application/rss+xml; charset=utf-8")
  /\ pc' = "Fetching"
  /\ UNCHANGED <<config, clock, upstream, responses, errorLog, rssXml, arg, ret>>

\* line 37: the fetch promise rejects (network failure)
FetchRejected ==
  /\ pc = "Fetching"
  /\ upstream.kind = "rejected"
  /\ Catch(responses, "fetch failed")
  /\ UNCHANGED <<config, clock, upstream, rssXml, arg, ret>>

\* lines 46-48: a non-success status throws the Webflow API error
FetchNotOk ==
  /\ pc = "Fetching"
  /\ upstream.kind = "response" /\ ~upstream.ok
  /\ Catch(responses, "Webflow API error")
  /\ UNCHANGED <<config, clock, upstream, rssXml, arg, ret>>

\* lines 46-50: a success status; the body is being parsed
FetchOk ==
  /\ pc = "Fetching"
  /\ upstream.kind = "response" /\ upstream.ok
  /\ pc' = "ParsingBody"
  /\ UNCHANGED <<config, clock, upstream, resHeaders, responses, errorLog, rssXml, arg, ret>>

\* line 50: response.json() rejects
JsonRejected ==
  /\ pc = "ParsingBody"
  /\ upstream.body = "unparsable"
  /\ Catch(responses, "invalid json")
  /\ UNCHANGED <<config, clock, upstream, rssXml, arg, ret>>

\* line 51: data.items || []
FetchedPosts(up) == IF up.hasItems THEN up.items ELSE <<>>

\* line 22 throws: the catch block answers
RenderThrows ==
  /\ pc = "ParsingBody"
  /\ upstream.body = "object"
  /\ generateRSS(FetchedPosts(upstream), config, clock).threw
  /\ Catch(responses, "TypeError")
  /\ UNCHANGED <<config, clock, upstream, rssXml, arg, ret>>

\* lines 22-25: the document is rendered and sent
RenderAndSend ==
  /\ pc = "ParsingBody"
  /\ upstream.body = "object"
  /\ ~generateRSS(FetchedPosts(upstream), config, clock).threw
  /\ rssXml' = generateRSS(FetchedPosts(upstream), config, clock).v
  /\ responses' = Append(responses, [status |-> StatusOk, type |-> "rss", body |-> rssXml'])
  /\ pc' = "Responded"
  /\ UNCHANGED <<config, clock, upstream, resHeaders, errorLog, arg, ret>>

\* line 25 throws inside the try block: res.send fails before anything was
\* written (started = FALSE) or after the 200 response was started; either
\* way the catch block then answers on the same res
SendThrows ==
  /\ pc = "ParsingBody"
  /\ upstream.body = "object"
  /\ ~generateRSS(FetchedPosts(upstream), config, clock).threw
  /\ rssXml' = generateRSS(FetchedPosts(upstream), config, clock).v
  /\ \E started \in BOOLEAN :
       Catch(IF started
             THEN Append(responses, [status |-> StatusOk, type |-> "rss", body |-> rssXml'])
             ELSE responses, "send failed")
  /\ UNCHANGED <<config, clock, upstream, arg, ret>>

Next ==
  \/ Start
  \/ FetchRejected
  \/ FetchNotOk
  \/ FetchOk
  \/ JsonRejected
  \/ RenderThrows
  \/ RenderAndSend
  \/ SendThrows

Spec == Init /\ [][Next]_vars

-----------------------------------------------------------------------------
(* escapeXml applied to every bounded input *)

InitEscape ==
  /\ pc = "escapeXml:call"
  /\ arg \in EscapeInputs
  /\ ret = <<>>
  /\ config = Idle /\ clock = Idle /\ upstream = Idle /\ resHeaders = Idle
  /\ responses = Idle /\ errorLog = Idle /\ rssXml = Idle

CallEscapeXml ==
  /\ pc = "escapeXml:call"
  /\ ret' = escapeXml(arg)
  /\ pc' = "escapeXml:returned"
  /\ UNCHANGED <<config, clock, upstream, resHeaders, responses, errorLog, rssXml, arg>>

NextEscape == CallEscapeXml

SpecEscape == InitEscape /\ [][NextEscape]_vars

-----------------------------------------------------------------------------
(* extractFullContent applied to every bounded field mapping *)

InitExtract ==
  /\ pc = "extractFullContent:call"
  /\ arg \in ExtractInputs
  /\ ret = Return(<<>>)
  /\ config = Idle /\ clock = Idle /\ upstream = Idle /\ resHeaders = Idle
  /\ responses = Idle /\ errorLog = Idle /\ rssXml = Idle

CallExtractFullContent ==
  /\ pc = "extractFullContent:call"
  /\ ret' = extractFullContent(arg)
  /\ pc' = IF ret'.threw THEN "extractFullContent:threw" ELSE "extractFullContent:returned"
  /\ UNCHANGED <<config, clock, upstream, resHeaders, responses, errorLog, rssXml, arg>>

NextExtract == CallExtractFullContent

SpecExtract == InitExtract /\ [][NextExtract]_vars

-----------------------------------------------------------------------------
(* Reading a rendered document back: markers and text nodes *)

\* 6 characters
K_itemOpen == <<"<", "i", "t", "e", "m", ">">>
\* 7 characters
K_itemClose == <<"<", "/", "i", "t", "e", "m", ">">>
\* 25 characters
K_guidOpen == <<"<", "g", "u", "i", "d", " ", "i", "s", "P", "e", "r", "m", "a", "L", "i", "n", "k", "=", "\"", "t", "r", "u", "e", "\"", ">">>
\* 7 characters
K_guidClose == <<"<", "/", "g", "u", "i", "d", ">">>
\* 6 characters
K_linkOpen == <<"<", "l", "i", "n", "k", ">">>
\* 7 characters
K_linkClose == <<"<", "/", "l", "i", "n", "k", ">">>
\* 7 characters
K_titleOpen == <<"<", "t", "i", "t", "l", "e", ">">>
\* 8 characters
K_titleClose == <<"<", "/", "t", "i", "t", "l", "e", ">">>
\* 8 characters
K_authorOpen == <<"<", "a", "u", "t", "h", "o", "r", ">">>
\* 9 characters
K_authorClose == <<"<", "/", "a", "u", "t", "h", "o", "r", ">">>
\* 9 characters
K_pubDateOpen == <<"<", "p", "u", "b", "D", "a", "t", "e", ">">>
\* 10 characters
K_pubDateClose == <<"<", "/", "p", "u", "b", "D", "a", "t", "e", ">">>
\* 13 characters
K_descOpen == <<"<", "d", "e", "s", "c", "r", "i", "p", "t", "i", "o", "n", ">">>
\* 14 characters
K_descClose == <<"<", "/", "d", "e", "s", "c", "r", "i", "p", "t", "i", "o", "n", ">">>
\* 26 characters
K_contentOpen == <<"<", "c", "o", "n", "t", "e", "n", "t", ":", "e", "n", "c", "o", "d", "e", "d", ">", "<", "!", "[", "C", "D", "A", "T", "A", "[">>
\* 18 characters
K_contentClose == <<"<", "/", "c", "o", "n", "t", "e", "n", "t", ":", "e", "n", "c", "o", "d", "e", "d", ">">>
\* 3 characters
K_cdataEnd == <<"]", "]", ">">>
\* 9 characters
K_channelOpen == <<"<", "c", "h", "a", "n", "n", "e", "l", ">">>
\* 10 characters
K_channelClose == <<"<", "/", "c", "h", "a", "n", "n", "e", "l", ">">>
\* 6 characters
K_rssClose == <<"<", "/", "r", "s", "s", ">">>
\* 5 characters
K_xmlDecl == <<"<", "?", "x", "m", "l">>
\* 37 characters
V_linesHtml == <<"L", "i", "n", "e", " ", "o", "n", "e", "<", "/", "p", ">", "<", "p", ">", "L", "i", "n", "e", " ", "t", "w", "o", "<", "b", "r", ">", "L", "i", "n", "e", " ", "t", "h", "r", "e", "e">>
\* 29 characters
V_utc2 == <<"S", "u", "n", ",", " ", "3", "1", " ", "D", "e", "c", " ", "2", "0", "2", "3", " ", "2", "3", ":", "5", "9", ":", "5", "9", " ", "G", "M", "T">>

\* the positions at which pat occurs in s
Occurrences(s, pat) ==
  {i \in 1..(Len(s) - Len(pat) + 1) : \A k \in 1..Len(pat) : s[i + k - 1] = pat[k]}

\* the position of the n-th occurrence of pat in s
NthOccurrence(s, pat, n) ==
  CHOOSE i \in Occurrences(s, pat) : Cardinality({j \in Occurrences(s, pat) : j <= i}) = n

\* the text between the first open marker of s and the first close marker after it
Between(s, open, close) ==
  LET a == IndexOf(s, open)
      rest == SubSeq(s, a + Len(open), Len(s))
      b == IndexOf(rest, close)
  IN SubSeq(rest, 1, b - 1)

\* the n-th <item> ... </item> fragment of a document
ItemFragment(doc, n) ==
  SubSeq(doc, NthOccurrence(doc, K_itemOpen, n),
         NthOccurrence(doc, K_itemClose, n) + Len(K_itemClose) - 1)

\* the part of a document before its first item, or all of it
ChannelHead(doc) ==
  IF IndexOf(doc, K_itemOpen) = 0 THEN doc ELSE SubSeq(doc, 1, IndexOf(doc, K_itemOpen) - 1)

\* the single-pass mapping of one character to its entity
EntityOf(c) ==
  CASE c = "&" -> <<"&", "a", "m", "p", ";">>
    [] c = "<" -> <<"&", "l", "t", ";">>
    [] c = ">" -> <<"&", "g", "t", ";">>
    [] c = "\"" -> <<"&", "q", "u", "o", "t", ";">>
    [] c = "'" -> <<"&", "#", "3", "9", ";">>
    [] OTHER -> <<c>>

\* every character of s mapped independently
EscapedOnce(s) == Concat([i \in 1..Len(s) |-> EntityOf(s[i])])

\* no reserved character of XML stands raw in s
NoRawMarkup(s) == \A i \in 1..Len(s) : s[i] \notin {"<", ">", "\"", "'"}

Finished == pc \in {"Responded", "Failed"}

ErrorResponse == [status |-> StatusError, type |-> "json", body |-> J_error]

FetchFailed ==
  \/ upstream.kind = "rejected"
  \/ upstream.kind = "response" /\ ~upstream.ok
  \/ upstream.kind = "response" /\ upstream.ok /\ upstream.body = "unparsable"

FetchSucceeded == upstream.kind = "response" /\ upstream.ok /\ upstream.body = "object"

-----------------------------------------------------------------------------
(* Properties of handler *)

\* C1: when the upstream fetch fails (non-success status, rejected call or
\* unparsable body) every response the handler makes is the 500 response with
\* the fixed JSON body, never one with the upstream status and never XML, and
\* the finished handler has made exactly that one response.
C1_FetchFailureAnswers500 ==
  FetchFailed =>
    /\ \A i \in 1..Len(responses) : responses[i] = ErrorResponse
    /\ rssXml = <<>>
    /\ pc # "Responded"
    /\ Finished => responses = <<ErrorResponse>>

\* C1 witness: a 403 from upstream has been answered with the 500 JSON response.
C1_Witness ==
  /\ pc = "Failed"
  /\ upstream.kind = "response" /\ upstream.status = 403
  /\ responses = <<ErrorResponse>>

\* C2: a finished handler has produced exactly one response.
C2_ExactlyOneResponse == Finished => Len(responses) = 1

SendFailed == \E i \in 1..Len(errorLog) : errorLog[i] = "send failed"

\* C3: when the upstream fetch succeeds, with items, with an empty items array
\* or with no items field, and res.send does not fail, the finished handler
\* has answered 200 with the complete document generateRSS renders from the
\* fetched records, and with no records that document has the channel
\* envelope and no item.
C3_SuccessAnswers200 ==
  (FetchSucceeded /\ Finished /\ ~SendFailed) =>
    /\ ~generateRSS(FetchedPosts(upstream), config, clock).threw
    /\ responses = <<[status |-> StatusOk, type |-> "rss",
                      body |-> generateRSS(FetchedPosts(upstream), config, clock).v]>>
    /\ FetchedPosts(upstream) = <<>> =>
         /\ Occurrences(rssXml, K_itemOpen) = {}
         /\ Cardinality(Occurrences(rssXml, K_channelOpen)) = 1
         /\ Cardinality(Occurrences(rssXml, K_channelClose)) = 1
         /\ IndexOf(rssXml, K_xmlDecl) = 1
         /\ IndexOf(rssXml, K_rssClose) = Len(rssXml) - Len(K_rssClose) + 1

\* C4: a document rendered from n records holds exactly n item fragments, and
\* the i-th fragment is the rendering of the i-th record, whatever the
\* records' timestamps and identifiers.
C4_ItemsInInputOrder ==
  rssXml # <<>> =>
    LET posts == FetchedPosts(upstream)
    IN /\ Cardinality(Occurrences(rssXml, K_itemOpen)) = Len(posts)
       /\ Cardinality(Occurrences(rssXml, K_itemClose)) = Len(posts)
       /\ \A i \in 1..Len(posts) :
            LET item == RenderItem(posts[i], config, toUTCString(clock)).v
            IN /\ ItemFragment(rssXml, i) = SubSeq(item, IndexOf(item, K_itemOpen), Len(item))
               /\ Between(ItemFragment(rssXml, i), K_guidOpen, K_guidClose) = PostUrl(posts[i], config)

\* C4 witness: the older record first, the newer second, both rendered, the
\* first item carrying the older date.
C4_Witness ==
  /\ pc = "Responded"
  /\ FetchedPosts(upstream) = <<PostPlain, PostFull>>
  /\ Between(ItemFragment(rssXml, 1), K_pubDateOpen, K_pubDateClose) = V_utc2

\* C8: a successful fetch never ends in the error response because rendering
\* a record threw.
C8_RenderingNeverThrows ==
  FetchSucceeded => \A i \in 1..Len(errorLog) : errorLog[i] # "TypeError"

\* C9: in a rendered document the text of every non-CDATA node (item title,
\* link, guid, pubDate, author; channel title, description) is the value
\* escaped once, with no raw markup character in it.
C9_TextNodesEscapedOnce ==
  rssXml # <<>> =>
    LET posts == FetchedPosts(upstream)
        head == ChannelHead(rssXml)
    IN /\ Between(head, K_titleOpen, K_titleClose) = EscapedOnce(SITE_NAME(config))
       /\ Between(head, K_descOpen, K_descClose) = EscapedOnce(SITE_DESCRIPTION(config))
       /\ \A i \in 1..Len(posts) :
            LET item == ItemFragment(rssXml, i)
                author == ToStr(Or(Field(posts[i].fieldData, "author"), Str(<<>>)))
                title == ToStr(Or(Or(Field(posts[i].fieldData, "name"),
                                    Field(posts[i].fieldData, "title")), Str(T_untitled)))
            IN /\ Between(item, K_titleOpen, K_titleClose) = EscapedOnce(title)
               /\ Between(item, K_linkOpen, K_linkClose) = EscapedOnce(PostUrl(posts[i], config))
               /\ Between(item, K_guidOpen, K_guidClose) = EscapedOnce(PostUrl(posts[i], config))
               /\ Between(item, K_pubDateOpen, K_pubDateClose)
                    = EscapedOnce(PostDate(posts[i], toUTCString(clock)))
               /\ author # <<>> => Between(item, K_authorOpen, K_authorClose) = EscapedOnce(author)
               /\ NoRawMarkup(Between(item, K_linkOpen, K_linkClose))
               /\ NoRawMarkup(Between(item, K_guidOpen, K_guidClose))

\* C10: in a rendered document the CDATA section of every item's
\* content:encoded element holds the whole extracted content and ends only at
\* the renderer's closing marker.
C10_ContentCdataNotBroken ==
  rssXml # <<>> =>
    \A i \in 1..Len(FetchedPosts(upstream)) :
      LET item == ItemFragment(rssXml, i)
          after == SubSeq(item, IndexOf(item, K_contentOpen) + Len(K_contentOpen), Len(item))
          end == IndexOf(after, K_cdataEnd)
      IN /\ SubSeq(after, 1, end - 1) = extractFullContent(FetchedPosts(upstream)[i].fieldData).v
         /\ SubSeq(after, end + Len(K_cdataEnd), end + Len(K_cdataEnd) + Len(K_contentClose) - 1)
              = K_contentClose

-----------------------------------------------------------------------------
(* Properties of escapeXml *)

\* C5: escapeXml returns the empty string for a falsy value and otherwise the
\* string form with every character mapped independently to its entity; no
\* ampersand of an entity is escaped again and no raw <, >, " or ' is left.
C5_EscapeIsSinglePassMapping ==
  pc = "escapeXml:returned" =>
    /\ ~Truthy(arg) => ret = <<>>
    /\ Truthy(arg) => ret = EscapedOnce(ToStr(arg))
    /\ NoRawMarkup(ret)

\* C5 witness: a string with an ampersand before characters whose entities
\* bring ampersands of their own has been escaped.
C5_Witness ==
  /\ pc = "escapeXml:returned"
  /\ arg = Str(<<"&", "<", "'">>)
  /\ ret = E_amp \o E_lt \o E_apos

-----------------------------------------------------------------------------
(* Properties of extractFullContent *)

Called == pc \in {"extractFullContent:returned", "extractFullContent:threw"}

\* the candidate fields of a mapping that are non-empty, by position in the list
NonEmptyCandidates(fieldData) ==
  {i \in 1..Len(contentFields) : Truthy(Get(fieldData.fields, contentFields[i]))}

FirstCandidate(fieldData) ==
  LET first == CHOOSE i \in NonEmptyCandidates(fieldData) :
                 \A j \in NonEmptyCandidates(fieldData) : i <= j
  IN Get(fieldData.fields, contentFields[first])

\* unchanged when it holds both < and >, otherwise double newlines become
\* paragraph breaks and then the remaining newlines line breaks
Normalized(s) ==
  IF (\E i \in 1..Len(s) : s[i] = "<") /\ (\E i \in 1..Len(s) : s[i] = ">") THEN s
  ELSE ReplaceAll(ReplaceAll(s, <<"\n", "\n">>, R_para), <<"\n">>, R_br)

\* C6: when some candidate field is non-empty, extractFullContent returns the
\* normalization of the first non-empty candidate in list order.
C6_FirstCandidateNormalized ==
  (Called /\ arg.present /\ NonEmptyCandidates(arg) # {}) =>
    /\ ~ret.threw
    /\ ret.v = Normalized(ToStr(FirstCandidate(arg)))

\* words: the maximal runs of characters other than the space
WordCount(s) == Cardinality({i \in 1..Len(s) : s[i] # " " /\ (i = 1 \/ s[i - 1] = " ")})

SpaceCount(s) == Cardinality({i \in 1..Len(s) : s[i] = " "})

HasMarker(s) == Includes(s, <<"<", "p", ">">>) \/ Includes(s, <<"<", "h">>) \/ Includes(s, <<"<", "d", "i", "v">>)

NoAddress(s) == ~Includes(s, <<"@">>) /\ ~Includes(s, <<"h", "t", "t", "p">>)

LikelyByWords(v) ==
  /\ v.t = "string" /\ Len(v.s) > 100
  /\ HasMarker(v.s) \/ (WordCount(v.s) > 20 /\ NoAddress(v.s))

LikelyBySpaces(v) ==
  /\ v.t = "string" /\ Len(v.s) > 100
  /\ HasMarker(v.s) \/ (SpaceCount(v.s) >= 20 /\ NoAddress(v.s))

Values(fieldData) == [i \in 1..Len(fieldData.fields) |-> fieldData.fields[i].v]

\* the selected values in iteration order, each followed by two newlines, normalized
FallbackContent(fieldData, Selected(_)) ==
  LET picked == SelectSeq(Values(fieldData), Selected)
  IN Normalized(Concat([i \in 1..Len(picked) |-> picked[i].s \o <<"\n", "\n">>]))

\* C7 as stated: with no non-empty candidate field the content is made of
\* exactly the strings longer than 100 characters that are likely content,
\* where the word test counts words.
C7_SelectsByWordCount ==
  (Called /\ NonEmptyCandidates(arg) = {}) =>
    /\ ~ret.threw
    /\ ret.v = FallbackContent(arg, LikelyByWords)

\* C7 amended: the word test counts the pieces between single spaces (more than
\* 20 pieces, that is at least 20 space characters), so consecutive spaces
\* count as words of their own.
C7_SelectsBySpaceSeparatedPieces ==
  (Called /\ NonEmptyCandidates(arg) = {}) =>
    /\ ~ret.threw
    /\ ret.v = FallbackContent(arg, LikelyBySpaces)
    /\ (\A i \in 1..Len(arg.fields) : ~LikelyBySpaces(arg.fields[i].v)) => ret.v = <<>>

\* C7 witness: the only passing field is 150 characters of plain text in 25
\* words and it has been returned as the content; the long text with an
\* address before it was skipped.
C7_Witness ==
  /\ pc = "extractFullContent:returned"
  /\ arg = FieldData(<<KV("notes", Str(V_longAt)), KV("intro", Str(V_long150))>>)
  /\ ret.v = V_long150 \o R_para

====
